---------------------------- MODULE Spec2Model ----------------------------
(***************************************************************************)
(* A model of the cross-compilation project classes of cheribuild:         *)
(*   pycheribuild/projects/llvm.py                   BuildLLVM, BuildLLD   *)
(*   pycheribuild/projects/cross/crosscompileproject.py                    *)
(*                         CrossCompileProject and its CMake and Autotools *)
(*                         variants                                        *)
(* Byte strings and strings are sequences of tokens; a list of flags is a  *)
(* sequence of flags; a joined flag string is the sequence of its flags    *)
(* with the separator token " " between them.                              *)
(***************************************************************************)
EXTENDS Integers, Sequences, FiniteSets, TLC

VARIABLES
    pretend,             \* self.config.pretend
    \* ---- BuildLLVM.checkClangVersion
    cCompiler,           \* self.cCompiler: "None" or a path
    cppCompiler,         \* self.cppCompiler: "None" or a path
    versionTuple,        \* (major, minor, patch) of the call
    versionString,       \* the stderr of `compiler -v`
    gatePc,              \* position in checkClangVersion
    gateLog,             \* what the call did, in order: "Missing", "probe", "TooOld"
    \* ---- CrossCompileCMakeProject._prepareToolchainFile
    cmakeTemplate,       \* self.cmakeTemplate
    kwargs,              \* the mapping of the call, in iteration order
    configuredTemplate,  \* the local of the same name
    keyIdx,              \* the next item of kwargs.items()
    tmplPc,              \* position in _prepareToolchainFile
    toolchainFile,       \* what writeFile was given, or NoFile
    \* ---- CrossCompileProject / CrossCompileAutotoolsProject
    targetArch,          \* cls.targetArch: "cheri" or "mips64"
    target,              \* cls.target: the name of the project's build target
    noUseMxgot,          \* option no-use-mxgot
    linkDynamic,         \* option link-dynamic
    linker,              \* option linker
    optimizationFlags,   \* option optimization-flags
    COMMON_FLAGS,        \* self.COMMON_FLAGS
    CFLAGS,              \* self.CFLAGS
    CXXFLAGS,            \* self.CXXFLAGS
    configureEnvironment,\* self.configureEnvironment
    osPATH,              \* os.environ["PATH"]: [isSet, val]
    savedPATH,           \* the PATH setEnv keeps to restore
    crossPc,             \* position in process()
    processCalls,        \* process() calls so far
    configureCalls,      \* configure() calls so far
    lastExit,            \* how the last process() call ended
    pathAtEntry,         \* history: PATH when the last process() call began
    envAtEntry,          \* history: configureEnvironment when the last configure() began
    \* ---- BuildLLVM.install
    installTree,         \* the files under self.installDir
    treeAtGlob,          \* history: installTree when the globs ran
    incompatibleFiles,   \* the local of the same name
    rmIdx,               \* the next file of the removal loop
    symlinkCalls,        \* the tools createBuildtoolTargetSymlinks was called for
    symlinks,            \* the target-prefixed symlinks that exist
    instPc               \* position in install()

gateVars == <<cCompiler, cppCompiler, versionTuple, versionString, gatePc, gateLog>>

tmplVars == <<cmakeTemplate, kwargs, configuredTemplate, keyIdx, tmplPc, toolchainFile>>

crossVars == <<targetArch, target, noUseMxgot, linkDynamic, linker, optimizationFlags,
               COMMON_FLAGS, CFLAGS, CXXFLAGS, configureEnvironment, osPATH, savedPATH,
               crossPc, processCalls, configureCalls, lastExit, pathAtEntry, envAtEntry>>

instVars == <<installTree, treeAtGlob, incompatibleFiles, rmIdx, symlinkCalls, symlinks, instPc>>

vars == <<pretend, gateVars, tmplVars, crossVars, instVars>>

-----------------------------------------------------------------------------
(* Bounds *)

\* longest probe text, in tokens
MaxLen == 6

\* longest toolchain template, in characters
MaxTemplateLen == 5

\* process() calls on one project object
MaxRuns == 2

\* keys already in configureEnvironment when the project is built
MaxPreset == 2

-----------------------------------------------------------------------------
(* Helpers on sequences *)

RECURSIVE SeqsUpTo(_, _)
SeqsUpTo(S, n) ==
    IF n = 0 THEN {<<>>}
    ELSE LET shorter == SeqsUpTo(S, n - 1)
         IN  shorter \cup {Append(s, x) : s \in {t \in shorter : Len(t) = n - 1}, x \in S}

Contains(seq, x) == \E i \in 1..Len(seq) : seq[i] = x

-----------------------------------------------------------------------------
(* BuildLLVM.checkClangVersion *)

\* the literal b"clang version " of the pattern, as one token
ClangVersionToken == "clang version "

Digits == {"3", "6", "9"}

DigitValue(d) == IF d = "3" THEN 3 ELSE IF d = "6" THEN 6 ELSE 9

\* what the probe text is made of: the literal, digits, the dot, anything else
ProbeAlphabet == {ClangVersionToken, ".", "x"} \cup Digits

ProbeTexts == SeqsUpTo(ProbeAlphabet, MaxLen)

\* \d+ at position i of s, greedy: the length of the longest run of digits
RECURSIVE DigitRun(_, _)
DigitRun(s, i) ==
    IF i <= Len(s) /\ s[i] \in Digits THEN 1 + DigitRun(s, i + 1) ELSE 0

\* int() of a run of digits
RECURSIVE ToInt(_)
ToInt(ds) ==
    IF ds = <<>> THEN 0
    ELSE 10 * ToInt(SubSeq(ds, 1, Len(ds) - 1)) + DigitValue(ds[Len(ds)])

\* b"clang version (\d+)\.(\d+)\.?(\d+)?" matched at position i of s.
\* groups[3] = <<>> stands for a third group that did not take part (None).
MatchAt(s, i) ==
    LET n1 == DigitRun(s, i + 1)
        dot1 == i + 1 + n1
        n2 == DigitRun(s, dot1 + 1)
        after2 == dot1 + 1 + n2
        hasDot2 == after2 <= Len(s) /\ s[after2] = "."
        start3 == IF hasDot2 THEN after2 + 1 ELSE after2
        n3 == DigitRun(s, start3)
        ok == /\ i <= Len(s) /\ s[i] = ClangVersionToken
              /\ n1 >= 1
              /\ dot1 <= Len(s) /\ s[dot1] = "."
              /\ n2 >= 1
    IN  [ok |-> ok,
         groups |-> IF ok
                    THEN <<SubSeq(s, i + 1, i + n1),
                           SubSeq(s, dot1 + 1, dot1 + n2),
                           SubSeq(s, start3, start3 + n3 - 1)>>
                    ELSE <<>>]

\* versionPattern.search(versionString): the leftmost match, or none
Search(s) ==
    LET hits == {i \in 1..Len(s) : MatchAt(s, i).ok}
    IN  IF hits = {} THEN [ok |-> FALSE, groups |-> <<>>]
        ELSE MatchAt(s, CHOOSE i \in hits : \A j \in hits : i <= j)

\* tuple(map(int, match.groups())) if match else (0, 0, 0); int(None) raises
\* TypeError, which is the result "TypeError"
VersionComponents(s) ==
    LET m == Search(s)
    IN  IF ~m.ok THEN [raised |-> FALSE, value |-> <<0, 0, 0>>]
        ELSE IF m.groups[3] = <<>> THEN [raised |-> TRUE, value |-> <<>>]
        ELSE [raised |-> FALSE,
              value |-> <<ToInt(m.groups[1]), ToInt(m.groups[2]), ToInt(m.groups[3])>>]

\* Python's < on two 3-tuples of ints
TupleLess(a, b) ==
    \/ a[1] < b[1]
    \/ a[1] = b[1] /\ a[2] < b[2]
    \/ a[1] = b[1] /\ a[2] = b[2] /\ a[3] < b[3]

\* a slip: only the C compiler is looked at
CompilerMissingOnlyC(c, cpp) == c = "None"

\* `not self.cCompiler or not self.cppCompiler`
CompilerMissing(c, cpp) == c = "None" \/ cpp = "None"

\* Project.dependencyError: a dependency error is fatal to the current project's
\* build (it does not return to its caller), in pretend mode too
DependencyErrorAborts(p) == TRUE

\* the (major, minor, patch) the callers ask for: BuildLLVM (3, 7), BuildLLD
\* (3, 8), and two more to exercise the patch level and the zero requirement
RequiredVersions == {<<3, 7, 0>>, <<3, 8, 0>>, <<3, 9, 9>>, <<0, 0, 0>>}

CompilerPaths == {"None", "/usr/bin/clang"}

GateInit ==
    /\ cCompiler \in CompilerPaths
    /\ cppCompiler \in CompilerPaths
    /\ pretend \in BOOLEAN
    /\ versionTuple \in RequiredVersions
    /\ versionString = <<>>
    /\ gatePc = "start"
    /\ gateLog = <<>>

\* lines 93-94
CheckCompilers ==
    /\ gatePc = "start"
    /\ IF CompilerMissing(cCompiler, cppCompiler)
       THEN /\ gateLog' = Append(gateLog, "Missing")
            /\ gatePc' = IF DependencyErrorAborts(pretend) THEN "failed" ELSE "probe"
       ELSE /\ gateLog' = gateLog
            /\ gatePc' = "probe"
    /\ UNCHANGED <<cCompiler, cppCompiler, pretend, versionTuple, versionString>>

\* line 98: runCmd(self.cCompiler, "-v", captureError=True).stderr
RunProbe ==
    /\ gatePc = "probe"
    /\ \E text \in ProbeTexts : versionString' = text
    /\ gateLog' = Append(gateLog, "probe")
    /\ gatePc' = "compare"
    /\ UNCHANGED <<cCompiler, cppCompiler, pretend, versionTuple>>

\* lines 99-104
CompareVersion ==
    /\ gatePc = "compare"
    /\ LET found == VersionComponents(versionString)
       IN  IF found.raised
           THEN /\ gatePc' = "TypeError"
                /\ gateLog' = gateLog
           ELSE IF TupleLess(found.value, versionTuple)
           THEN /\ gateLog' = Append(gateLog, "TooOld")
                /\ gatePc' = IF DependencyErrorAborts(pretend) THEN "failed" ELSE "done"
           ELSE /\ gateLog' = gateLog
                /\ gatePc' = "done"
    /\ UNCHANGED <<cCompiler, cppCompiler, pretend, versionTuple, versionString>>

-----------------------------------------------------------------------------
(* CrossCompileCMakeProject._prepareToolchainFile *)

NoFile == <<"<no file>">>

TemplateKeys == {"A", "B"}

TemplateAlphabet == {"@"} \cup TemplateKeys

Templates == SeqsUpTo(TemplateAlphabet, MaxTemplateLen)

\* " ".join(list)
RECURSIVE JoinSpace(_)
JoinSpace(list) ==
    IF list = <<>> THEN <<>>
    ELSE IF Len(list) = 1 THEN list[1]
    ELSE list[1] \o <<" ">> \o JoinSpace(Tail(list))

\* a value of the mapping: a list of strings, or something str() turns into
\* the one string of parts
TemplateValues ==
    {[isList |-> FALSE, parts |-> <<p>>] : p \in {<<"x">>, <<"@">>, <<"@", "A", "@">>, <<"@", "B", "@">>}}
    \cup {[isList |-> TRUE, parts |-> ps] : ps \in {<<>>, <<(<<"x">>), (<<"y">>)>>}}

\* strval = " ".join(value) if isinstance(value, list) else str(value)
Strval(value) == IF value.isList THEN JoinSpace(value.parts) ELSE value.parts[1]

\* the mappings: every order of every set of distinct keys, with their values
KwargsSets ==
    {<<>>}
    \cup {<<[key |-> k, value |-> v]>> : k \in TemplateKeys, v \in TemplateValues}
    \cup {<<[key |-> k1, value |-> v1], [key |-> k2, value |-> v2]>> :
             <<k1, k2>> \in {kk \in TemplateKeys \X TemplateKeys : kk[1] # kk[2]},
             <<v1, v2>> \in TemplateValues \X TemplateValues}

\* "@" + key + "@"
Placeholder(key) == <<"@", key, "@">>

StartsWith(s, pat) == Len(pat) <= Len(s) /\ SubSeq(s, 1, Len(pat)) = pat

\* `pat in s` for strings
RECURSIVE Occurs(_, _)
Occurs(pat, s) ==
    IF Len(s) < Len(pat) THEN FALSE
    ELSE StartsWith(s, pat) \/ Occurs(pat, Tail(s))

\* s.replace(pat, rep) for a non-empty pat: every non-overlapping occurrence,
\* leftmost first
RECURSIVE Replace(_, _, _)
Replace(s, pat, rep) ==
    IF Len(s) < Len(pat) THEN s
    ELSE IF StartsWith(s, pat)
         THEN rep \o Replace(SubSeq(s, Len(pat) + 1, Len(s)), pat, rep)
         ELSE <<Head(s)>> \o Replace(Tail(s), pat, rep)

TmplInit ==
    /\ cmakeTemplate \in Templates
    /\ kwargs \in KwargsSets
    /\ configuredTemplate = cmakeTemplate
    /\ keyIdx = 1
    /\ tmplPc = "loop"
    /\ toolchainFile = NoFile

\* lines 92-95: one iteration of the loop
SubstituteKey ==
    /\ tmplPc = "loop"
    /\ keyIdx <= Len(kwargs)
    /\ LET key == kwargs[keyIdx].key
           strval == Strval(kwargs[keyIdx].value)
       IN  IF ~Occurs(Placeholder(key), configuredTemplate)
           THEN /\ tmplPc' = "AssertionError"
                /\ UNCHANGED <<configuredTemplate, keyIdx>>
           ELSE /\ configuredTemplate' = Replace(configuredTemplate, Placeholder(key), strval)
                /\ keyIdx' = keyIdx + 1
                /\ tmplPc' = tmplPc
    /\ UNCHANGED <<cmakeTemplate, kwargs, toolchainFile>>

\* lines 96-97
CheckAndWrite ==
    /\ tmplPc = "loop"
    /\ keyIdx > Len(kwargs)
    /\ IF Contains(configuredTemplate, "@")
       THEN /\ tmplPc' = "AssertionError"
            /\ toolchainFile' = toolchainFile
       ELSE /\ tmplPc' = "written"
            /\ toolchainFile' = configuredTemplate
    /\ UNCHANGED <<cmakeTemplate, kwargs, configuredTemplate, keyIdx>>

-----------------------------------------------------------------------------
(* CrossCompileProject and CrossCompileAutotoolsProject *)

\* a string that is one token
Str(s) == <<s>>

\* self.config.sdkDir
sdkDir == Str("/sdk")

\* self.sdkBinDir = self.config.sdkDir / "bin"
sdkBinDir == sdkDir \o <<"/bin">>

\* self.sdkSysroot = self.config.sdkDir / "sysroot"
sdkSysroot == sdkDir \o <<"/sysroot">>

\* self.compilerDir = self.sdkBinDir
compilerDir == sdkBinDir

\* self.targetTriple = self.targetArch + "-unknown-freebsd"
targetTriple(arch) == <<arch, "-unknown-freebsd">>

warningFlags ==
    <<Str("-Wall"), Str("-Werror=cheri-capability-misuse"),
      Str("-Werror=implicit-function-declaration"), Str("-Werror=format"),
      Str("-Werror=undefined-internal"), Str("-Werror=incompatible-pointer-types")>>

\* a slip: -mxgot is appended before the ABI flag
InitCommonFlagsMxgotFirst(arch, noMxgot) ==
    <<Str("-integrated-as"), Str("-pipe"), Str("-msoft-float"), Str("-G0"), Str("-g")>>
    \o (IF ~noMxgot THEN <<Str("-mxgot")>> ELSE <<>>)
    \o (IF arch = "cheri" THEN <<Str("-mabi=sandbox")>> ELSE <<>>)

\* __init__, lines 39-43: the COMMON_FLAGS of a new project
InitCommonFlags(arch, noMxgot) ==
    <<Str("-integrated-as"), Str("-pipe"), Str("-msoft-float"), Str("-G0"), Str("-g")>>
    \o (IF arch = "cheri" THEN <<Str("-mabi=sandbox")>> ELSE <<>>)
    \o (IF ~noMxgot THEN <<Str("-mxgot")>> ELSE <<>>)

\* the LDFLAGS property
LDFLAGS ==
    LET emulation == IF target = "cheri" THEN "elf64btsmip_cheri_fbsd" ELSE "elf64btsmip_fbsd"
        result == <<(<<"-Wl,-m", emulation>>),
                    (<<"-fuse-ld=", linker>>),
                    <<"--sysroot=">> \o sdkSysroot,
                    <<"-B">> \o sdkBinDir>>
    IN  IF ~linkDynamic THEN Append(result, Str("-static")) ELSE result

\* configure, lines 132-136: what is appended to COMMON_FLAGS
ConfigureExtension(arch) ==
    <<<<"--sysroot=">> \o sdkSysroot, <<"-B">> \o sdkBinDir, Str("-target"), targetTriple(arch)>>

\* a slip: the optimization flags come before the warning flags
CppFlagsSwapped(common, warnings, optimization) == common \o optimization \o warnings

\* configure, line 137
CppFlags(common, warnings, optimization) == common \o warnings \o optimization

\* configure, line 138: the keys asserted to be absent
AssertedKeys == {"CFLAGS", "CXXFLAGS", "CPPFLAGS", "LDFLAGS"}

\* env[key] = value
SetKey(env, key, value) ==
    [k \in DOMAIN env \cup {key} |-> IF k = key THEN value ELSE env[k]]

\* configure, lines 140-145
DerivedEnvironment(env, cpp) ==
    LET e1 == SetKey(env, "CC", compilerDir \o <<"/">> \o targetTriple(targetArch) \o <<"-clang">>)
        e2 == SetKey(e1, "CXX", compilerDir \o <<"/">> \o targetTriple(targetArch) \o <<"-clang++">>)
        e3 == SetKey(e2, "CPPFLAGS", JoinSpace(cpp))
        e4 == SetKey(e3, "CFLAGS", JoinSpace(cpp \o CFLAGS))
        e5 == SetKey(e4, "CXXFLAGS", JoinSpace(cpp \o CXXFLAGS))
    IN  SetKey(e5, "LDFLAGS", JoinSpace(LDFLAGS))

\* a slip: the SDK's bin directory is put after the old PATH
NewPathAppended(old) == old \o <<":">> \o sdkDir \o <<"/bin">>

\* process, line 151: str(self.config.sdkDir / "bin") + ":" + os.getenv("PATH")
NewPath(old) == sdkDir \o <<"/bin">> \o <<":">> \o old

\* utils.setEnv: the context manager puts the old environment back however its
\* body ends (return, exception, sys.exit)
SetEnvRestores(how) == TRUE

\* the names a project's build target can have
ProjectTargets == {"libcxx", "cheri"}

Architectures == {"cheri", "mips64"}

Linkers == {"lld", "bfd"}

OptimizationChoices == {<<Str("-O0")>>, <<Str("-O2"), Str("-O2")>>}

\* what a concrete project appends to self.CFLAGS / self.CXXFLAGS in its constructor
ExtraFlagChoices == {<<>>, <<Str("-DX"), Str("-Wall")>>}

EnvKeyUniverse == {"CC", "CXX", "CPPFLAGS", "CFLAGS", "CXXFLAGS", "LDFLAGS", "PKG_CONFIG_PATH"}

PresetEnvironments ==
    {[k \in D |-> Str("preset")] : D \in {E \in SUBSET EnvKeyUniverse : Cardinality(E) <= MaxPreset}}

PathValues ==
    {[isSet |-> FALSE, val |-> <<>>], [isSet |-> TRUE, val |-> <<>>],
     [isSet |-> TRUE, val |-> Str("/usr/bin")]}

CrossInit ==
    /\ targetArch \in Architectures
    /\ target \in ProjectTargets
    /\ noUseMxgot \in BOOLEAN
    /\ linkDynamic \in BOOLEAN
    /\ linker \in Linkers
    /\ optimizationFlags \in OptimizationChoices
    /\ COMMON_FLAGS = InitCommonFlags(targetArch, noUseMxgot)
    /\ CFLAGS \in ExtraFlagChoices
    /\ CXXFLAGS \in ExtraFlagChoices
    /\ configureEnvironment \in PresetEnvironments
    /\ osPATH \in PathValues
    /\ savedPATH = osPATH
    /\ crossPc = "idle"
    /\ processCalls = 0
    /\ configureCalls = 0
    /\ lastExit = "none"
    /\ pathAtEntry = osPATH
    /\ envAtEntry = configureEnvironment

crossConfig == <<targetArch, target, noUseMxgot, linkDynamic, linker, optimizationFlags,
                 CFLAGS, CXXFLAGS>>

\* process, lines 149-151: the PATH for the step is built (str + None raises
\* TypeError when PATH is not set) and setEnv installs it
ProcessEnter ==
    /\ crossPc = "idle"
    /\ lastExit \in {"none", "return"}
    /\ processCalls < MaxRuns
    /\ processCalls' = processCalls + 1
    /\ pathAtEntry' = osPATH
    /\ IF ~osPATH.isSet
       THEN /\ lastExit' = "TypeError"
            /\ UNCHANGED <<osPATH, savedPATH, crossPc>>
       ELSE /\ savedPATH' = osPATH
            /\ osPATH' = [isSet |-> TRUE, val |-> NewPath(osPATH.val)]
            /\ crossPc' = "inProcess"
            /\ lastExit' = lastExit
    /\ UNCHANGED <<crossConfig, COMMON_FLAGS, configureEnvironment, configureCalls, envAtEntry>>

\* configure, lines 131-147, called by the generic process step
Configure ==
    /\ crossPc = "inProcess"
    /\ LET common == COMMON_FLAGS \o ConfigureExtension(targetArch)
           cpp == CppFlags(common, warningFlags, optimizationFlags)
       IN  /\ COMMON_FLAGS' = common
           /\ IF \E key \in AssertedKeys : key \in DOMAIN configureEnvironment
              THEN /\ crossPc' = "raising"
                   /\ configureEnvironment' = configureEnvironment
              ELSE /\ crossPc' = "configured"
                   /\ configureEnvironment' = DerivedEnvironment(configureEnvironment, cpp)
    /\ envAtEntry' = configureEnvironment
    /\ configureCalls' = configureCalls + 1
    /\ UNCHANGED <<crossConfig, osPATH, savedPATH, processCalls, lastExit, pathAtEntry>>

\* process, lines 151-152: the generic process step ends and the with block is left
ProcessExit ==
    /\ crossPc \in {"inProcess", "configured", "raising"}
    /\ \E how \in (IF crossPc = "configured" THEN {"return", "exception", "abort"}
                   ELSE IF crossPc = "raising" THEN {"exception"}
                   ELSE {"exception", "abort"}) :
          /\ lastExit' = how
          /\ osPATH' = IF SetEnvRestores(how) THEN savedPATH ELSE osPATH
    /\ crossPc' = "idle"
    /\ UNCHANGED <<crossConfig, COMMON_FLAGS, configureEnvironment, savedPATH, processCalls,
                   configureCalls, pathAtEntry, envAtEntry>>

-----------------------------------------------------------------------------
(* BuildLLVM.install *)

\* a path is the sequence of its components, a component the sequence of its tokens
IncludeDir(ver) == <<Str("lib"), Str("clang"), Str(ver), Str("include")>>

\* the files an install tree can hold
FileUniverse ==
    {Append(IncludeDir("3.8.0"), <<"std", "def.h">>),
     Append(IncludeDir("3.8.0"), <<"std", "int.h">>),
     Append(IncludeDir("3.9.0"), <<"limits.h">>),
     Append(IncludeDir("3.8.0"), <<"float.h">>),
     <<Str("lib"), Str("clang"), Str("include"), <<"std", "arg.h">>>>,
     <<Str("bin"), Str("clang")>>}

\* one component against one component of a glob pattern
ComponentMatches(comp, pat) ==
    CASE pat.kind = "literal" -> comp = pat.text
      [] pat.kind = "any" -> TRUE
      [] pat.kind = "prefix" -> StartsWith(comp, pat.text)

\* Path.glob(pattern) for a pattern without "**": component by component
GlobMatches(path, pattern) ==
    /\ Len(path) = Len(pattern)
    /\ \A i \in 1..Len(pattern) : ComponentMatches(path[i], pattern[i])

Literal(s) == [kind |-> "literal", text |-> Str(s)]

\* "lib/clang/*/include/std*"
StdPattern ==
    <<Literal("lib"), Literal("clang"), [kind |-> "any", text |-> <<>>], Literal("include"),
      [kind |-> "prefix", text |-> Str("std")]>>

\* "lib/clang/*/include/limits.h"
LimitsPattern ==
    <<Literal("lib"), Literal("clang"), [kind |-> "any", text |-> <<>>], Literal("include"),
      Literal("limits.h")>>

Glob(tree, pattern) == {f \in tree : GlobMatches(f, pattern)}

\* the orders a glob can yield a set of files in
Orderings(S) ==
    {q \in [1..Cardinality(S) -> S] : \A i, j \in 1..Cardinality(S) : i # j => q[i] # q[j]}

\* line 128
llvmBinaries ==
    <<"clang", "clang++", "llvm-mc", "llvm-objdump", "llvm-readobj", "llvm-size", "llc">>

\* line 120
NoMatches(files) == Len(files) = 0

\* a slip: the files are unlinked in pretend mode too
ShouldUnlinkAlways(p) == TRUE

\* line 125: `if not self.config.pretend`
ShouldUnlink(p) == ~p

\* utils.fatalError: a fatal error ends the step in progress, in pretend mode too
FatalErrorAborts(p) == TRUE

\* Project.createBuildtoolTargetSymlinks: the target-prefixed link for a tool,
\* not made in pretend mode
SymlinksAfter(links, tool, p) == IF p THEN links ELSE links \cup {<<"cheri-unknown-freebsd-", tool>>}

InstInit ==
    /\ pretend \in BOOLEAN
    /\ installTree \in SUBSET FileUniverse
    /\ treeAtGlob = {}
    /\ incompatibleFiles = <<>>
    /\ rmIdx = 1
    /\ symlinkCalls = <<>>
    /\ symlinks = {}
    /\ instPc = "start"

\* line 116: the generic install step puts files into the tree (none in pretend mode)
SuperInstall ==
    /\ instPc = "start"
    /\ IF pretend
       THEN installTree' = installTree
       ELSE \E more \in SUBSET FileUniverse : installTree' = installTree \cup more
    /\ instPc' = "glob"
    /\ UNCHANGED <<pretend, treeAtGlob, incompatibleFiles, rmIdx, symlinkCalls, symlinks>>

\* lines 118-119
GlobFiles ==
    /\ instPc = "glob"
    /\ \E first \in Orderings(Glob(installTree, StdPattern)),
          second \in Orderings(Glob(installTree, LimitsPattern)) :
          incompatibleFiles' = first \o second
    /\ treeAtGlob' = installTree
    /\ instPc' = "check"
    /\ UNCHANGED <<pretend, installTree, rmIdx, symlinkCalls, symlinks>>

\* lines 120-122
CheckMatches ==
    /\ instPc = "check"
    /\ instPc' = IF NoMatches(incompatibleFiles) /\ FatalErrorAborts(pretend)
                 THEN "fatal" ELSE "remove"
    /\ UNCHANGED <<pretend, installTree, treeAtGlob, incompatibleFiles, rmIdx, symlinkCalls,
                   symlinks>>

\* lines 123-126: one iteration of the removal loop
RemoveOne ==
    /\ instPc = "remove"
    /\ rmIdx <= Len(incompatibleFiles)
    /\ installTree' = IF ShouldUnlink(pretend) THEN installTree \ {incompatibleFiles[rmIdx]}
                      ELSE installTree
    /\ rmIdx' = rmIdx + 1
    /\ UNCHANGED <<pretend, treeAtGlob, incompatibleFiles, symlinkCalls, symlinks, instPc>>

\* lines 129-130: one iteration of the symlink loop
SymlinkOne ==
    /\ instPc = "remove"
    /\ rmIdx > Len(incompatibleFiles)
    /\ LET tool == llvmBinaries[Len(symlinkCalls) + 1]
       IN  /\ symlinkCalls' = Append(symlinkCalls, tool)
           /\ symlinks' = SymlinksAfter(symlinks, tool, pretend)
    /\ instPc' = IF Len(symlinkCalls) + 1 = Len(llvmBinaries) THEN "done" ELSE "remove"
    /\ UNCHANGED <<pretend, installTree, treeAtGlob, incompatibleFiles, rmIdx>>

-----------------------------------------------------------------------------
(* The state of a component that is not running *)

GateIdle ==
    /\ cCompiler = "None"
    /\ cppCompiler = "None"
    /\ versionTuple = <<0, 0, 0>>
    /\ versionString = <<>>
    /\ gatePc = "idle"
    /\ gateLog = <<>>

TmplIdle ==
    /\ cmakeTemplate = <<>>
    /\ kwargs = <<>>
    /\ configuredTemplate = <<>>
    /\ keyIdx = 1
    /\ tmplPc = "idle"
    /\ toolchainFile = NoFile

CrossIdle ==
    /\ targetArch = "cheri"
    /\ target = "libcxx"
    /\ noUseMxgot = FALSE
    /\ linkDynamic = FALSE
    /\ linker = "lld"
    /\ optimizationFlags = <<>>
    /\ COMMON_FLAGS = <<>>
    /\ CFLAGS = <<>>
    /\ CXXFLAGS = <<>>
    /\ configureEnvironment = <<>>
    /\ osPATH = [isSet |-> FALSE, val |-> <<>>]
    /\ savedPATH = osPATH
    /\ crossPc = "none"
    /\ processCalls = 0
    /\ configureCalls = 0
    /\ lastExit = "none"
    /\ pathAtEntry = osPATH
    /\ envAtEntry = <<>>

InstIdle ==
    /\ installTree = {}
    /\ treeAtGlob = {}
    /\ incompatibleFiles = <<>>
    /\ rmIdx = 1
    /\ symlinkCalls = <<>>
    /\ symlinks = {}
    /\ instPc = "idle"

-----------------------------------------------------------------------------
(* The specifications, one per component *)

InitGate == GateInit /\ TmplIdle /\ CrossIdle /\ InstIdle

GateNext ==
    \/ CheckCompilers /\ UNCHANGED <<tmplVars, crossVars, instVars>>
    \/ RunProbe /\ UNCHANGED <<tmplVars, crossVars, instVars>>
    \/ CompareVersion /\ UNCHANGED <<tmplVars, crossVars, instVars>>

SpecGate == InitGate /\ [][GateNext]_vars

InitTemplate == pretend = FALSE /\ TmplInit /\ GateIdle /\ CrossIdle /\ InstIdle

TmplNext ==
    \/ SubstituteKey /\ UNCHANGED <<pretend, gateVars, crossVars, instVars>>
    \/ CheckAndWrite /\ UNCHANGED <<pretend, gateVars, crossVars, instVars>>

SpecTemplate == InitTemplate /\ [][TmplNext]_vars

InitCross == pretend = FALSE /\ CrossInit /\ GateIdle /\ TmplIdle /\ InstIdle

CrossNext ==
    \/ ProcessEnter /\ UNCHANGED <<pretend, gateVars, tmplVars, instVars>>
    \/ Configure /\ UNCHANGED <<pretend, gateVars, tmplVars, instVars>>
    \/ ProcessExit /\ UNCHANGED <<pretend, gateVars, tmplVars, instVars>>

SpecCross == InitCross /\ [][CrossNext]_vars

InitInstall == InstInit /\ GateIdle /\ TmplIdle /\ CrossIdle

InstNext ==
    \/ SuperInstall /\ UNCHANGED <<gateVars, tmplVars, crossVars>>
    \/ GlobFiles /\ UNCHANGED <<gateVars, tmplVars, crossVars>>
    \/ CheckMatches /\ UNCHANGED <<gateVars, tmplVars, crossVars>>
    \/ RemoveOne /\ UNCHANGED <<gateVars, tmplVars, crossVars>>
    \/ SymlinkOne /\ UNCHANGED <<gateVars, tmplVars, crossVars>>

SpecInstall == InitInstall /\ [][InstNext]_vars

(* The claims *)

GateFinished == gatePc \in {"done", "failed", "TypeError"}

\* the found tuple as C1 and C2 define it: the first match's components, the
\* patch 0 when it is left out, (0, 0, 0) when nothing matches
FoundTuple(s) ==
    LET m == Search(s)
    IN  IF ~m.ok THEN <<0, 0, 0>>
        ELSE <<ToInt(m.groups[1]), ToInt(m.groups[2]), ToInt(m.groups[3])>>

\* C1: once checkClangVersion has probed the compiler and ended, it has reported
\* "too old" exactly when the found tuple is smaller than the required one, and
\* it has not crashed on a text nothing matches in.
C1_TooOldExactlyWhenSmaller ==
    (GateFinished /\ Contains(gateLog, "probe")) =>
        /\ Contains(gateLog, "TooOld") <=> TupleLess(FoundTuple(versionString), versionTuple)
        /\ ~Search(versionString).ok => gatePc # "TypeError"

\* C2: a probe text whose first match has two components, and whose tuple
\* (major, minor, 0) is not smaller than the required one, ends as Satisfied:
\* no error reported, no exception.
C2_TwoComponentSatisfied ==
    (/\ GateFinished
     /\ Contains(gateLog, "probe")
     /\ Search(versionString).ok
     /\ Search(versionString).groups[3] = <<>>
     /\ ~TupleLess(FoundTuple(versionString), versionTuple))
    => (gatePc = "done" /\ gateLog = <<"probe">>)

RECURSIVE FullySubstituted(_, _)
FullySubstituted(text, items) ==
    IF items = <<>> THEN text
    ELSE FullySubstituted(Replace(text, Placeholder(items[1].key), Strval(items[1].value)),
                          Tail(items))

\* C4: _prepareToolchainFile writes the file exactly when every key's
\* placeholder is in the template and the fully substituted text holds no "@";
\* otherwise it fails and nothing is written.
C4_WritesExactlyWhenConsistent ==
    tmplPc \in {"written", "AssertionError"} =>
        /\ tmplPc = "written" <=>
              /\ \A i \in 1..Len(kwargs) : Occurs(Placeholder(kwargs[i].key), cmakeTemplate)
              /\ ~Contains(FullySubstituted(cmakeTemplate, kwargs), "@")
        /\ tmplPc = "AssertionError" => toolchainFile = NoFile

DerivedKeys == {"CC", "CXX", "CPPFLAGS", "CFLAGS", "CXXFLAGS", "LDFLAGS"}

\* C5: a configure call that finds one of the six derived keys already in the
\* environment fails and leaves the environment as it was; with none of them
\* there it sets all six.
C5_PresetKeyFailsUnchanged ==
    crossPc \in {"configured", "raising"} =>
        IF DerivedKeys \cap DOMAIN envAtEntry # {}
        THEN crossPc = "raising" /\ configureEnvironment = envAtEntry
        ELSE crossPc = "configured" /\ DerivedKeys \subseteq DOMAIN configureEnvironment

\* the files of the tree the two header patterns match, when the globs ran
MatchedHeaders ==
    {f \in treeAtGlob :
        /\ Len(f) = 5
        /\ f[1] = <<"lib">> /\ f[2] = <<"clang">> /\ f[4] = <<"include">>
        /\ (f[5][1] = "std" \/ f[5] = <<"limits.h">>)}

C7_PathScoped ==
    /\ crossPc \in {"inProcess", "configured", "raising"} =>
          osPATH = [isSet |-> TRUE, val |-> <<"/sdk", "/bin", ":">> \o pathAtEntry.val]
    /\ (crossPc = "idle" /\ lastExit # "none") => osPATH = pathAtEntry

C7_Witness ==
    /\ crossPc = "idle"
    /\ lastExit = "abort"
    /\ configureCalls = 1
    /\ osPATH = [isSet |-> TRUE, val |-> <<"/usr/bin">>]

BaselineFlags == <<Str("-integrated-as"), Str("-pipe"), Str("-msoft-float"), Str("-G0"), Str("-g")>>

\* COMMON_FLAGS as C8 words it
ExpectedCommon ==
    BaselineFlags
    \o (IF targetArch = "cheri" THEN <<Str("-mabi=sandbox")>> ELSE <<>>)
    \o (IF noUseMxgot THEN <<>> ELSE <<Str("-mxgot")>>)

\* C8: until configure is called, COMMON_FLAGS is the baseline, then
\* -mabi=sandbox for cheri only, then -mxgot unless no-use-mxgot is set; the
\* option takes away the last flag of the list built without it, nothing else.
C8_CommonFlagsAfterConstruction ==
    (crossPc # "none" /\ configureCalls = 0) =>
        /\ COMMON_FLAGS = ExpectedCommon
        /\ Cardinality({i \in 1..Len(COMMON_FLAGS) : COMMON_FLAGS[i] = Str("-mabi=sandbox")})
              = IF targetArch = "cheri" THEN 1 ELSE 0
        /\ LET other == InitCommonFlags(targetArch, ~noUseMxgot)
           IN  IF noUseMxgot THEN other = Append(COMMON_FLAGS, Str("-mxgot"))
               ELSE COMMON_FLAGS = Append(other, Str("-mxgot"))

C8_Witness ==
    /\ crossPc = "inProcess"
    /\ configureCalls = 0
    /\ targetArch = "cheri"
    /\ ~noUseMxgot
    /\ Len(COMMON_FLAGS) = 7

\* C9: after the one successful configure call of a fresh project, the six
\* variables hold COMMON + sysroot/-B/-target flags + warnings + optimization
\* flags (+ the extra C or C++ flags), joined by single spaces in that order,
\* the joined linker flags, and the two compiler paths.
C9_DerivedEnvironment ==
    (crossPc = "configured" /\ configureCalls = 1) =>
        LET cpp == ExpectedCommon
                   \o <<(<<"--sysroot=", "/sdk", "/sysroot">>), (<<"-B", "/sdk", "/bin">>),
                        (<<"-target">>), (<<targetArch, "-unknown-freebsd">>)>>
                   \o warningFlags \o optimizationFlags
        IN  /\ configureEnvironment["CPPFLAGS"] = JoinSpace(cpp)
            /\ configureEnvironment["CFLAGS"] = JoinSpace(cpp \o CFLAGS)
            /\ configureEnvironment["CXXFLAGS"] = JoinSpace(cpp \o CXXFLAGS)
            /\ configureEnvironment["LDFLAGS"] = JoinSpace(LDFLAGS)
            /\ configureEnvironment["CC"] = <<"/sdk", "/bin", "/", targetArch, "-unknown-freebsd", "-clang">>
            /\ configureEnvironment["CXX"] = <<"/sdk", "/bin", "/", targetArch, "-unknown-freebsd", "-clang++">>

C9_Witness ==
    /\ crossPc = "configured"
    /\ configureCalls = 1
    /\ CFLAGS # <<>>
    /\ Len(optimizationFlags) = 2
    /\ "PKG_CONFIG_PATH" \in DOMAIN configureEnvironment
    /\ configureEnvironment["CFLAGS"] # configureEnvironment["CPPFLAGS"]

\* C10: the linker flags configure reads start with the emulation of the
\* project's architecture, then -fuse-ld, --sysroot, -B, and -static unless
\* link-dynamic is set.
C10_EmulationFollowsArchitecture ==
    crossPc = "configured" =>
        LDFLAGS = <<(<<"-Wl,-m", IF targetArch = "cheri" THEN "elf64btsmip_cheri_fbsd"
                                 ELSE "elf64btsmip_fbsd">>),
                    (<<"-fuse-ld=", linker>>),
                    (<<"--sysroot=", "/sdk", "/sysroot">>),
                    (<<"-B", "/sdk", "/bin">>)>>
                  \o (IF linkDynamic THEN <<>> ELSE <<(<<"-static">>)>>)

=============================================================================
